---- MODULE Spec2Model ----
(***************************************************************************)
(* Model of the drive-thru voice front end: SessionContext, SpeakerContext, *)
(* OrderContext, CarControlComponent with its greeting AudioPlayer, and the *)
(* two microphone components (FloatingMicrophone, SpeakerIcon).             *)
(* Every action is one run-to-completion step of the browser event loop:   *)
(* a DOM event handler, or the continuation of an async function after an  *)
(* await, together with the React state commit that follows it.            *)
(***************************************************************************)
EXTENDS Integers, FiniteSets, Sequences, TLC

\* ---------------------------------------------------------------- bounds
\* number of backend sessions that can be created in one run
MaxSessions == 2
\* number of MediaRecorder instances (startRecording calls) in one run
MaxRec == 2
\* number of distinct response audio urls the backend can return
MaxUrl == 2
\* car numbers shown by the car control (the code draws from 1..100)
MaxCar == 1
\* getCurrentOrder requests with the same response tracked at a time; a
\* further request of that kind is not tracked
MaxFetch == 2
\* the clock of the DataProvider runs, minute by minute, from 1 to MaxNow
MaxNow == 8
\* getRestaurantMenu requests in flight at a time
MaxMenuFetch == 2
\* number of distinct restaurant-and-menu bodies the backend can return
MaxData == 2

\* const CACHE_DURATION = 5 * 60 * 1000, in minutes
CACHE_DURATION == 5

\* null of the TypeScript source
Null == 0

SessionIds == 1..MaxSessions
Recs == 1..MaxRec
Urls == 1..MaxUrl

VARIABLES
  \* SessionProvider
  sessionId, restaurantId, greetingAudioUrl, sessionError,
  \* backend: the next session id it hands out
  nextSession,
  \* SpeakerProvider
  isAISpeaking, isUserSpeaking, isAPIProcessing,
  \* OrderProvider and OrderComponent ref
  refreshTrigger, refreshOrderCalls,
  \* CarControlComponent
  currentCar, ccIsProcessing, shouldPlayGreeting, ccError, ccPending,
  \* greeting AudioPlayer element
  greetingAudio, greetingDone,
  \* microphone component that is mounted
  micKind,
  \* FloatingMicrophone / SpeakerIcon local state
  isRecording, hasPermission, permissionCheck, mediaRecorderRef, isMouseDown,
  siIsProcessing, siError,
  \* MediaRecorder instances and the utterance each one carries
  recState, recSession, nextRec,
  \* for each submitted utterance, the session id that was live in
  \* SessionContext when processAudio was called
  recLive,
  \* FloatingMicrophone response <audio> element
  audioUrl, responseAudio,
  \* OrderComponent: the session whose order the item list and the totals
  \* show (Null: empty), and the getCurrentOrder requests in flight, counted
  \* by the session whose items the response carries (Null: no items)
  orderItems, orderTotals, orderFetch,
  \* OrderComponent: the values its effects and its ref handle have last seen
  ocSession, ocTrigger, ocCalls,
  \* DataContext module: the cache (Null: none, [] for the menu) and Date.now()
  restaurantCache, menuCache, cacheTimestamp, now,
  \* DataProvider instance: mounted or not, and its state
  mounted, restaurant, menu, isLoading, error,
  \* getRestaurantMenu requests in flight: those of the mounted DataProvider
  \* and those of instances that have unmounted since
  fetching, orphaned

sessionVars == <<sessionId, restaurantId, greetingAudioUrl, sessionError, nextSession>>
speakerVars == <<isAISpeaking, isUserSpeaking, isAPIProcessing>>
dataVars == <<restaurantCache, menuCache, cacheTimestamp, now, mounted, restaurant,
              menu, isLoading, error, fetching, orphaned>>
viewVars == <<orderItems, orderTotals, orderFetch, ocSession, ocTrigger, ocCalls,
              dataVars>>
orderVars == <<refreshTrigger, refreshOrderCalls, viewVars>>
carVars == <<currentCar, ccIsProcessing, shouldPlayGreeting, ccError, ccPending>>
greetVars == <<greetingAudio, greetingDone>>
micVars == <<isRecording, hasPermission, permissionCheck, mediaRecorderRef,
             isMouseDown, siIsProcessing, siError>>
recVars == <<recState, recSession, nextRec>>
sendVars == <<recLive>>
respVars == <<audioUrl, responseAudio>>

vars == <<sessionVars, speakerVars, orderVars, carVars, greetVars, micKind,
          micVars, recVars, respVars, sendVars>>

\* ---------------------------------------------------------------- Init
Init ==
  /\ sessionId = Null /\ restaurantId = Null /\ greetingAudioUrl = Null
  /\ sessionError = FALSE
  /\ nextSession = 1
  /\ isAISpeaking = FALSE /\ isUserSpeaking = FALSE /\ isAPIProcessing = FALSE
  /\ refreshTrigger = 0 /\ refreshOrderCalls = 0
  /\ currentCar = Null /\ ccIsProcessing = FALSE /\ shouldPlayGreeting = FALSE
  /\ ccError = FALSE /\ ccPending = "none"
  /\ greetingAudio = "none" /\ greetingDone = 0
  /\ micKind \in {"Floating", "Icon"}
  /\ isRecording = FALSE /\ hasPermission = "null" /\ permissionCheck = TRUE
  /\ mediaRecorderRef = Null /\ isMouseDown = FALSE
  /\ siIsProcessing = FALSE /\ siError = FALSE
  /\ recState = [r \in Recs |-> "unused"]
  /\ recSession = [r \in Recs |-> Null]
  /\ nextRec = 1
  /\ audioUrl = Null /\ responseAudio = "none"
  /\ recLive = [r \in Recs |-> Null]
  /\ orderItems = Null /\ orderTotals = Null
  /\ orderFetch = [s \in {Null} \cup SessionIds |-> 0]
  /\ ocSession = Null /\ ocTrigger = 0 /\ ocCalls = 0
  /\ restaurantCache = Null /\ menuCache = Null /\ cacheTimestamp = 0
  /\ now = 1
  /\ mounted = FALSE /\ restaurant = Null /\ menu = Null
  /\ isLoading = FALSE /\ error = FALSE
  /\ fetching = 0 /\ orphaned = 0

\* ------------------------------------------------- CarControlComponent
\* disabled={isProcessing || isAISpeaking} on both car buttons
CarButtonsDisabled == ccIsProcessing \/ isAISpeaking

\* <AudioPlayer audioUrl={shouldPlayGreeting ? greetingAudioUrl : null}/>
GreetingMounted(play, url) == play /\ url # Null

\* the element is in the document and its listeners are attached
GreetingLive == greetingAudio \in {"starting", "playing"}

\* New Car button: handleNewCar up to the await inside createSession
HandleNewCar ==
  /\ currentCar = Null
  /\ ~CarButtonsDisabled
  /\ ccPending = "none"
  /\ ccIsProcessing' = TRUE
  /\ ccError' = FALSE
  /\ sessionError' = FALSE
  /\ ccPending' = "creating"
  /\ UNCHANGED <<sessionId, restaurantId, greetingAudioUrl, nextSession,
                 currentCar, shouldPlayGreeting>>
  /\ UNCHANGED <<speakerVars, orderVars, greetVars, micKind, micVars, recVars,
                 respVars, sendVars>>

\* createNewSession settles: the rest of createSession, then the rest of
\* handleNewCar (createSession never rejects), then the AudioPlayer effect.
CreateSessionSettled(ok, greeting, car) ==
  /\ ccPending = "creating"
  /\ ok => nextSession <= MaxSessions
  /\ IF ok
       THEN /\ sessionId' = nextSession
            /\ restaurantId' = 1
            /\ greetingAudioUrl' = greeting
            /\ nextSession' = nextSession + 1
            /\ UNCHANGED sessionError
       ELSE /\ sessionError' = TRUE
            /\ UNCHANGED <<sessionId, restaurantId, greetingAudioUrl, nextSession>>
  /\ currentCar' = car
  /\ shouldPlayGreeting' = TRUE
  /\ ccIsProcessing' = FALSE
  /\ ccPending' = "none"
  /\ IF GreetingMounted(TRUE, greetingAudioUrl') /\ ~GreetingLive
       THEN greetingAudio' = "starting" /\ greetingDone' = 0
       ELSE UNCHANGED greetVars
  /\ UNCHANGED ccError
  /\ UNCHANGED <<speakerVars, orderVars, micKind, micVars, recVars, respVars,
                 sendVars>>

\* Next Customer button: handleCarArrived up to the await inside clearSession
HandleCarArrived ==
  /\ currentCar # Null
  /\ ~CarButtonsDisabled
  /\ ccPending = "none"
  /\ ccIsProcessing' = TRUE
  /\ sessionError' = FALSE
  /\ ccPending' = "clearing"
  /\ UNCHANGED <<sessionId, restaurantId, greetingAudioUrl, nextSession,
                 currentCar, shouldPlayGreeting, ccError>>
  /\ UNCHANGED <<speakerVars, orderVars, greetVars, micKind, micVars, recVars,
                 respVars, sendVars>>

\* clearCurrentSession settles: the rest of clearSession, then the rest of
\* ClearSessionSettled that also starts the order-refresh token afresh
ClearSessionSettledResetsToken(ok) ==
  /\ ccPending = "clearing"
  /\ IF ok
       THEN /\ sessionId' = Null
            /\ restaurantId' = Null
            /\ greetingAudioUrl' = Null
            /\ UNCHANGED sessionError
       ELSE /\ sessionError' = TRUE
            /\ UNCHANGED <<sessionId, restaurantId, greetingAudioUrl>>
  /\ currentCar' = Null
  /\ shouldPlayGreeting' = FALSE
  /\ ccIsProcessing' = FALSE
  /\ ccPending' = "none"
  /\ IF greetingAudio = "starting"
       THEN /\ greetingAudio' = "over"
            /\ greetingDone' = greetingDone + 1
            /\ isAISpeaking' = FALSE
            /\ ccError' = TRUE
       ELSE /\ greetingAudio' = IF greetingAudio = "playing" THEN "over" ELSE greetingAudio
            /\ UNCHANGED <<greetingDone, isAISpeaking, ccError>>
  /\ refreshTrigger' = 0
  /\ UNCHANGED <<nextSession, isUserSpeaking, isAPIProcessing>>
  /\ UNCHANGED <<refreshOrderCalls, viewVars, micKind, micVars, recVars, respVars,
                 sendVars>>

\* handleCarArrived (clearSession never rejects). The AudioPlayer unmounts; a
\* play() promise still pending is rejected and its catch calls onError.
ClearSessionSettled(ok) ==
  /\ ccPending = "clearing"
  /\ IF ok
       THEN /\ sessionId' = Null
            /\ restaurantId' = Null
            /\ greetingAudioUrl' = Null
            /\ UNCHANGED sessionError
       ELSE /\ sessionError' = TRUE
            /\ UNCHANGED <<sessionId, restaurantId, greetingAudioUrl>>
  /\ currentCar' = Null
  /\ shouldPlayGreeting' = FALSE
  /\ ccIsProcessing' = FALSE
  /\ ccPending' = "none"
  /\ IF greetingAudio = "starting"
       THEN /\ greetingAudio' = "over"
            /\ greetingDone' = greetingDone + 1
            /\ isAISpeaking' = FALSE
            /\ ccError' = TRUE
       ELSE /\ greetingAudio' = IF greetingAudio = "playing" THEN "over" ELSE greetingAudio
            /\ UNCHANGED <<greetingDone, isAISpeaking, ccError>>
  /\ UNCHANGED <<nextSession, isUserSpeaking, isAPIProcessing>>
  /\ UNCHANGED <<orderVars, micKind, micVars, recVars, respVars, sendVars>>

\* ------------------------------------------------- greeting AudioPlayer
\* 'play' event -> handlePlay -> handleAudioPlayStart
GreetingPlay ==
  /\ greetingAudio = "starting"
  /\ greetingAudio' = "playing"
  /\ isAISpeaking' = TRUE
  /\ UNCHANGED <<greetingDone, isUserSpeaking, isAPIProcessing>>
  /\ UNCHANGED <<sessionVars, orderVars, carVars, micKind, micVars, recVars,
                 respVars, sendVars>>

\* 'ended' event -> handleEnded -> handleAudioPlayEnd
GreetingEnded ==
  /\ greetingAudio = "playing"
  /\ greetingAudio' = "over"
  /\ greetingDone' = greetingDone + 1
  /\ isAISpeaking' = FALSE
  /\ shouldPlayGreeting' = FALSE
  /\ UNCHANGED <<currentCar, ccIsProcessing, ccError, ccPending>>
  /\ UNCHANGED <<isUserSpeaking, isAPIProcessing>>
  /\ UNCHANGED <<sessionVars, orderVars, micKind, micVars, recVars, respVars,
                 sendVars>>

\* Playback fails. calls = 1: only the play() promise rejects (autoplay
\* refused) or only the 'error' event fires (decode error while playing).
\* calls = 2: the source cannot be loaded, the 'error' listener runs and the
\* pending play() promise rejects, and each calls handleAudioError.
GreetingFailed(calls) ==
  /\ GreetingLive
  /\ greetingAudio' = "over"
  /\ greetingDone' = greetingDone + calls
  /\ isAISpeaking' = FALSE
  /\ ccError' = TRUE
  /\ shouldPlayGreeting' = FALSE
  /\ UNCHANGED <<currentCar, ccIsProcessing, ccPending>>
  /\ UNCHANGED <<isUserSpeaking, isAPIProcessing>>
  /\ UNCHANGED <<sessionVars, orderVars, micKind, micVars, recVars, respVars,
                 sendVars>>

CarNext ==
  \/ HandleNewCar
  \/ \E ok \in BOOLEAN, greeting \in {Null, 1}, car \in 1..MaxCar :
       CreateSessionSettled(ok, greeting, car)
  \/ HandleCarArrived
  \/ \E ok \in BOOLEAN : ClearSessionSettled(ok)
  \/ GreetingPlay
  \/ GreetingEnded
  \/ \E calls \in 1..2 : GreetingFailed(calls)

\* ------------------------------------------------- microphone, shared
\* checkMicrophonePermission, run once by the mount effect
PermissionChecked(granted) ==
  /\ permissionCheck
  /\ permissionCheck' = FALSE
  /\ hasPermission' = IF granted THEN "true" ELSE "false"
  /\ UNCHANGED <<isRecording, mediaRecorderRef, isMouseDown, siIsProcessing, siError>>
  /\ UNCHANGED <<sessionVars, speakerVars, orderVars, carVars, greetVars, micKind,
                 recVars, respVars, sendVars>>

\* startRecording up to `await getUserMedia`: the handlers created later
\* close over the sessionId of the render in which the press happened
BeginOpen ==
  /\ nextRec <= MaxRec
  /\ recState' = [recState EXCEPT ![nextRec] = "opening"]
  /\ recSession' = [recSession EXCEPT ![nextRec] = sessionId]
  /\ nextRec' = nextRec + 1

\* getUserMedia resolved: the rest of the try block of startRecording
MicOpened(r) ==
  /\ recState[r] = "opening"
  /\ recState' = [recState EXCEPT ![r] = "recording"]
  /\ mediaRecorderRef' = r
  /\ isRecording' = TRUE
  /\ isUserSpeaking' = TRUE
  /\ UNCHANGED <<recSession, nextRec, isAISpeaking, isAPIProcessing>>
  /\ UNCHANGED <<hasPermission, permissionCheck, isMouseDown, siIsProcessing, siError>>
  /\ UNCHANGED <<sessionVars, orderVars, carVars, greetVars, micKind, respVars,
                 sendVars>>

\* getUserMedia rejected: the catch block of startRecording
MicDenied(r) ==
  /\ recState[r] = "opening"
  /\ recState' = [recState EXCEPT ![r] = "denied"]
  /\ hasPermission' = "false"
  /\ UNCHANGED <<recSession, nextRec>>
  /\ UNCHANGED <<isRecording, permissionCheck, mediaRecorderRef, isMouseDown,
                 siIsProcessing, siError>>
  /\ UNCHANGED <<sessionVars, speakerVars, orderVars, carVars, greetVars, micKind,
                 respVars, sendVars>>

\* apiClient.processAudio(audioFile, sessionId, restaurantId, 'en') is issued
Submit(r) == recLive' = [recLive EXCEPT ![r] = sessionId]

\* processAudio has been called for the utterance of recorder r
Submitted(r) ==
  recState[r] \in {"processing", "respAudio", "respFailed", "canned", "aiTimer"}
    \/ (recState[r] = "done" /\ recSession[r] # Null)

\* what the backend call can come to: a successful body, a body with
\* success false, a rejected request, the 20 s axios timeout
Outcomes == {"ok", "notok", "error", "timeout"}

\* ------------------------------------------------- FloatingMicrophone
\* disabled attribute of the microphone button (= guard of startRecording)
FMDisabled ==
  \/ isAISpeaking \/ isAPIProcessing \/ hasPermission = "false"
  \/ sessionId = Null \/ restaurantId = Null

\* onClick while isRecording is false
FMStartRecording ==
  /\ micKind = "Floating"
  /\ ~isRecording
  /\ ~FMDisabled
  /\ BeginOpen
  /\ UNCHANGED <<sessionVars, speakerVars, orderVars, carVars, greetVars, micKind,
                 micVars, respVars, sendVars>>

\* onClick while isRecording is true
FMStopRecording ==
  /\ micKind = "Floating"
  /\ isRecording
  /\ ~FMDisabled
  /\ mediaRecorderRef # Null
  /\ recState[mediaRecorderRef] = "recording"
  /\ recState' = [recState EXCEPT ![mediaRecorderRef] = "stopping"]
  /\ UNCHANGED <<recSession, nextRec>>
  /\ UNCHANGED <<sessionVars, speakerVars, orderVars, carVars, greetVars, micKind,
                 micVars, respVars, sendVars>>

\* mediaRecorder.onstop up to `await processAudio`
FMOnStop(r) ==
  /\ micKind = "Floating"
  /\ recState[r] = "stopping"
  /\ recState' = [recState EXCEPT ![r] = "processing"]
  /\ isRecording' = FALSE
  /\ isUserSpeaking' = FALSE
  /\ isAPIProcessing' = TRUE
  /\ Submit(r)
  /\ UNCHANGED <<recSession, nextRec, isAISpeaking>>
  /\ UNCHANGED <<hasPermission, permissionCheck, mediaRecorderRef, isMouseDown,
                 siIsProcessing, siError>>
  /\ UNCHANGED <<sessionVars, orderVars, carVars, greetVars, micKind, respVars>>

\* the <audio src={audioUrl} autoPlay> element after audioUrl becomes url:
\* a new src starts playing, the same src leaves the element as it is
ResponseAudioAfter(url) ==
  IF url = Null THEN "none"
  ELSE IF url # audioUrl THEN "starting"
  ELSE responseAudio

\* FMResponse with the refresh moved out of the `if (response.success)` block:
\* it asks for a refresh whenever the body reports order_state_changed
FMResponseRefreshOutsideSuccess(r, outcome, url, changed) ==
  /\ micKind = "Floating"
  /\ recState[r] = "processing"
  /\ recState' = [recState EXCEPT ![r] = "done"]
  /\ IF outcome = "ok"
       THEN /\ audioUrl' = url
            /\ responseAudio' = ResponseAudioAfter(url)
            /\ isAISpeaking' = (url # Null)
       ELSE UNCHANGED <<audioUrl, responseAudio, isAISpeaking>>
  /\ refreshOrderCalls' = IF changed /\ outcome \in {"ok", "notok"}
                             THEN refreshOrderCalls + 1 ELSE refreshOrderCalls
  /\ isAPIProcessing' = FALSE
  /\ UNCHANGED <<recSession, nextRec, isUserSpeaking, refreshTrigger, viewVars>>
  /\ UNCHANGED <<sessionVars, carVars, greetVars, micKind, micVars, sendVars>>

\* FMResponse that sends a failed utterance through onstop again
FMResponseRetry(r, outcome, url, changed) ==
  /\ micKind = "Floating"
  /\ recState[r] = "processing"
  /\ recState' = [recState EXCEPT ![r] =
                    IF outcome = "ok" THEN "done" ELSE "stopping"]
  /\ IF outcome = "ok"
       THEN /\ audioUrl' = url
            /\ responseAudio' = ResponseAudioAfter(url)
            /\ isAISpeaking' = (url # Null)
            /\ refreshOrderCalls' = IF changed THEN refreshOrderCalls + 1
                                    ELSE refreshOrderCalls
       ELSE UNCHANGED <<audioUrl, responseAudio, isAISpeaking, refreshOrderCalls>>
  /\ isAPIProcessing' = FALSE
  /\ UNCHANGED <<recSession, nextRec, isUserSpeaking, refreshTrigger, viewVars>>
  /\ UNCHANGED <<sessionVars, carVars, greetVars, micKind, micVars, sendVars>>

\* FMResponse with setAPIProcessing(false) at the end of the try block
\* instead of in `finally`: a thrown error leaves the flag set
FMResponseNoFinally(r, outcome, url, changed) ==
  /\ micKind = "Floating"
  /\ recState[r] = "processing"
  /\ recState' = [recState EXCEPT ![r] = "done"]
  /\ IF outcome = "ok"
       THEN /\ audioUrl' = url
            /\ responseAudio' = ResponseAudioAfter(url)
            /\ isAISpeaking' = (url # Null)
            /\ refreshOrderCalls' = IF changed THEN refreshOrderCalls + 1
                                    ELSE refreshOrderCalls
       ELSE UNCHANGED <<audioUrl, responseAudio, isAISpeaking, refreshOrderCalls>>
  /\ isAPIProcessing' = IF outcome \in {"error", "timeout"} THEN isAPIProcessing
                        ELSE FALSE
  /\ UNCHANGED <<recSession, nextRec, isUserSpeaking, refreshTrigger, viewVars>>
  /\ UNCHANGED <<sessionVars, carVars, greetVars, micKind, micVars, sendVars>>

\* mediaRecorder.onstop after `await processAudio`: try / catch / finally
FMResponse(r, outcome, url, changed) ==
  /\ micKind = "Floating"
  /\ recState[r] = "processing"
  /\ recState' = [recState EXCEPT ![r] = "done"]
  /\ IF outcome = "ok"
       THEN /\ audioUrl' = url
            /\ responseAudio' = ResponseAudioAfter(url)
            /\ isAISpeaking' = (url # Null)
            /\ refreshOrderCalls' = IF changed THEN refreshOrderCalls + 1
                                    ELSE refreshOrderCalls
       ELSE UNCHANGED <<audioUrl, responseAudio, isAISpeaking, refreshOrderCalls>>
  /\ isAPIProcessing' = FALSE
  /\ UNCHANGED <<recSession, nextRec, isUserSpeaking, refreshTrigger, viewVars>>
  /\ UNCHANGED <<sessionVars, carVars, greetVars, micKind, micVars, sendVars>>

\* onPlay of the response <audio>
ResponseAudioPlay ==
  /\ responseAudio = "starting"
  /\ responseAudio' = "playing"
  /\ isAISpeaking' = TRUE
  /\ UNCHANGED <<audioUrl, isUserSpeaking, isAPIProcessing>>
  /\ UNCHANGED <<sessionVars, orderVars, carVars, greetVars, micKind, micVars,
                 recVars, sendVars>>

\* onPause and onEnded of the response <audio> at the end of playback
ResponseAudioEnded ==
  /\ responseAudio = "playing"
  /\ responseAudio' = "ended"
  /\ isAISpeaking' = FALSE
  /\ UNCHANGED <<audioUrl, isUserSpeaking, isAPIProcessing>>
  /\ UNCHANGED <<sessionVars, orderVars, carVars, greetVars, micKind, micVars,
                 recVars, sendVars>>

\* the response <audio> cannot load or play: it has no onError handler
ResponseAudioFailed ==
  /\ responseAudio \in {"starting", "playing"}
  /\ responseAudio' = "failed"
  /\ UNCHANGED audioUrl
  /\ UNCHANGED <<sessionVars, speakerVars, orderVars, carVars, greetVars, micKind,
                 micVars, recVars, sendVars>>

FloatingNext ==
  \/ FMStartRecording
  \/ FMStopRecording
  \/ \E r \in Recs : FMOnStop(r)
  \/ \E r \in Recs, outcome \in Outcomes, url \in {Null} \cup Urls,
        changed \in BOOLEAN : FMResponse(r, outcome, url, changed)
  \/ ResponseAudioPlay
  \/ ResponseAudioEnded
  \/ ResponseAudioFailed

\* ------------------------------------------------- SpeakerIcon
\* the isDisabled prop as handleMouseDown documents it:
\* "Recording disabled - no session or AI speaking"
SIDisabled == sessionId = Null \/ isAISpeaking

\* handleMouseDown
SIMouseDown ==
  /\ micKind = "Icon"
  /\ ~SIDisabled
  /\ ~siIsProcessing
  /\ hasPermission = "true"
  /\ ~isAISpeaking
  /\ isMouseDown' = TRUE
  /\ BeginOpen
  /\ UNCHANGED <<isRecording, hasPermission, permissionCheck, mediaRecorderRef,
                 siIsProcessing, siError>>
  /\ UNCHANGED <<sessionVars, speakerVars, orderVars, carVars, greetVars, micKind,
                 respVars, sendVars>>

\* stopRecording of SpeakerIcon
SIStopRecording ==
  IF mediaRecorderRef # Null /\ isRecording
    THEN /\ recState' = [recState EXCEPT ![mediaRecorderRef] = "stopping"]
         /\ isRecording' = FALSE
         /\ isUserSpeaking' = FALSE
    ELSE UNCHANGED <<recState, isRecording, isUserSpeaking>>

\* handleMouseUp (the icon is rendered unless hasPermission is false)
SIMouseUp ==
  /\ micKind = "Icon"
  /\ hasPermission # "false"
  /\ isMouseDown' = FALSE
  /\ SIStopRecording
  /\ UNCHANGED <<recSession, nextRec, isAISpeaking, isAPIProcessing>>
  /\ UNCHANGED <<hasPermission, permissionCheck, mediaRecorderRef, siIsProcessing,
                 siError>>
  /\ UNCHANGED <<sessionVars, orderVars, carVars, greetVars, micKind, respVars,
                 sendVars>>

\* handleMouseLeave
SIMouseLeave ==
  /\ micKind = "Icon"
  /\ hasPermission # "false"
  /\ isMouseDown
  /\ isMouseDown' = FALSE
  /\ SIStopRecording
  /\ UNCHANGED <<recSession, nextRec, isAISpeaking, isAPIProcessing>>
  /\ UNCHANGED <<hasPermission, permissionCheck, mediaRecorderRef, siIsProcessing,
                 siError>>
  /\ UNCHANGED <<sessionVars, orderVars, carVars, greetVars, micKind, respVars,
                 sendVars>>

\* mediaRecorder.onstop: processRecording up to `await processAudio`, then
\* the stream's tracks are stopped
SIOnStop(r) ==
  /\ micKind = "Icon"
  /\ recState[r] = "stopping"
  /\ IF recSession[r] = Null
       THEN /\ recState' = [recState EXCEPT ![r] = "done"]
            /\ UNCHANGED <<siIsProcessing, siError, sendVars>>
       ELSE /\ recState' = [recState EXCEPT ![r] = "processing"]
            /\ siIsProcessing' = TRUE
            /\ siError' = FALSE
            /\ Submit(r)
  /\ UNCHANGED <<recSession, nextRec>>
  /\ UNCHANGED <<isRecording, hasPermission, permissionCheck, mediaRecorderRef,
                 isMouseDown>>
  /\ UNCHANGED <<sessionVars, speakerVars, orderVars, carVars, greetVars, micKind,
                 respVars>>

\* SIResponse with the timeout handled apart from the other failures: no
\* fallback phrase, the processing flag is cleared at once
SIResponseTimeoutSilent(r, outcome, url, changed) ==
  /\ micKind = "Icon"
  /\ recState[r] = "processing"
  /\ IF outcome = "ok"
       THEN /\ recState' = [recState EXCEPT ![r] =
                              IF url # Null THEN "respAudio" ELSE "done"]
            /\ isAISpeaking' = (url # Null)
            /\ refreshTrigger' = IF changed THEN refreshTrigger + 1
                                 ELSE refreshTrigger
            /\ siIsProcessing' = FALSE
            /\ UNCHANGED siError
       ELSE IF outcome = "timeout"
       THEN /\ recState' = [recState EXCEPT ![r] = "done"]
            /\ siError' = TRUE
            /\ siIsProcessing' = FALSE
            /\ UNCHANGED <<isAISpeaking, refreshTrigger>>
       ELSE /\ recState' = [recState EXCEPT ![r] = "canned"]
            /\ siError' = TRUE
            /\ UNCHANGED <<isAISpeaking, refreshTrigger, siIsProcessing>>
  /\ UNCHANGED <<recSession, nextRec, isUserSpeaking, isAPIProcessing,
                 refreshOrderCalls, viewVars>>
  /\ UNCHANGED <<isRecording, hasPermission, permissionCheck, mediaRecorderRef,
                 isMouseDown>>
  /\ UNCHANGED <<sessionVars, carVars, greetVars, micKind, respVars, sendVars>>

\* processRecording after `await processAudio`: the try block, or the catch
\* block up to `await playCannedPhrase`
SIResponse(r, outcome, url, changed) ==
  /\ micKind = "Icon"
  /\ recState[r] = "processing"
  /\ IF outcome = "ok"
       THEN /\ recState' = [recState EXCEPT ![r] =
                              IF url # Null THEN "respAudio" ELSE "done"]
            /\ isAISpeaking' = (url # Null)
            /\ refreshTrigger' = IF changed THEN refreshTrigger + 1
                                 ELSE refreshTrigger
            /\ siIsProcessing' = FALSE
            /\ UNCHANGED siError
       ELSE /\ recState' = [recState EXCEPT ![r] = "canned"]
            /\ siError' = TRUE
            /\ UNCHANGED <<isAISpeaking, refreshTrigger, siIsProcessing>>
  /\ UNCHANGED <<recSession, nextRec, isUserSpeaking, isAPIProcessing,
                 refreshOrderCalls, viewVars>>
  /\ UNCHANGED <<isRecording, hasPermission, permissionCheck, mediaRecorderRef,
                 isMouseDown>>
  /\ UNCHANGED <<sessionVars, carVars, greetVars, micKind, respVars, sendVars>>

\* audio.onended of the response Audio object
SIResponseAudioEnded(r) ==
  /\ recState[r] = "respAudio"
  /\ recState' = [recState EXCEPT ![r] = "done"]
  /\ isAISpeaking' = FALSE
  /\ UNCHANGED <<recSession, nextRec, isUserSpeaking, isAPIProcessing>>
  /\ UNCHANGED <<sessionVars, orderVars, carVars, greetVars, micKind, micVars,
                 respVars, sendVars>>

\* the response Audio object cannot load or play: audio.play() rejects
\* unhandled and there is no onerror
SIResponseAudioFailed(r) ==
  /\ recState[r] = "respAudio"
  /\ recState' = [recState EXCEPT ![r] = "respFailed"]
  /\ UNCHANGED <<recSession, nextRec>>
  /\ UNCHANGED <<sessionVars, speakerVars, orderVars, carVars, greetVars, micKind,
                 micVars, respVars, sendVars>>

\* playCannedPhrase resolved (audio.onended): rest of the catch block, finally
SICannedEnded(r) ==
  /\ recState[r] = "canned"
  /\ recState' = [recState EXCEPT ![r] = "aiTimer"]
  /\ isAISpeaking' = TRUE
  /\ siIsProcessing' = FALSE
  /\ UNCHANGED <<recSession, nextRec, isUserSpeaking, isAPIProcessing>>
  /\ UNCHANGED <<isRecording, hasPermission, permissionCheck, mediaRecorderRef,
                 isMouseDown, siError>>
  /\ UNCHANGED <<sessionVars, orderVars, carVars, greetVars, micKind, respVars,
                 sendVars>>

\* playCannedPhrase rejected (audio.onerror or play() rejected): finally
SICannedFailed(r) ==
  /\ recState[r] = "canned"
  /\ recState' = [recState EXCEPT ![r] = "done"]
  /\ siIsProcessing' = FALSE
  /\ UNCHANGED <<recSession, nextRec>>
  /\ UNCHANGED <<isRecording, hasPermission, permissionCheck, mediaRecorderRef,
                 isMouseDown, siError>>
  /\ UNCHANGED <<sessionVars, speakerVars, orderVars, carVars, greetVars, micKind,
                 respVars, sendVars>>

\* setTimeout(() => setAISpeaking(false), 3000) fires
SITimerFired(r) ==
  /\ recState[r] = "aiTimer"
  /\ recState' = [recState EXCEPT ![r] = "done"]
  /\ isAISpeaking' = FALSE
  /\ UNCHANGED <<recSession, nextRec, isUserSpeaking, isAPIProcessing>>
  /\ UNCHANGED <<sessionVars, orderVars, carVars, greetVars, micKind, micVars,
                 respVars, sendVars>>

IconNext ==
  \/ SIMouseDown
  \/ SIMouseUp
  \/ SIMouseLeave
  \/ \E r \in Recs : SIOnStop(r)
  \/ \E r \in Recs, outcome \in Outcomes, url \in {Null} \cup Urls,
        changed \in BOOLEAN : SIResponse(r, outcome, url, changed)
  \/ \E r \in Recs : SIResponseAudioEnded(r)
  \/ \E r \in Recs : SIResponseAudioFailed(r)
  \/ \E r \in Recs : SICannedEnded(r)
  \/ \E r \in Recs : SICannedFailed(r)
  \/ \E r \in Recs : SITimerFired(r)

MicNext ==
  \/ \E granted \in BOOLEAN : PermissionChecked(granted)
  \/ \E r \in Recs : MicOpened(r)
  \/ \E r \in Recs : MicDenied(r)

Next == CarNext \/ MicNext \/ FloatingNext \/ IconNext

Spec == Init /\ [][Next]_vars

\* ------------------------------------------------- OrderComponent
\* React runs the effects of a commit before it handles the next event:
\* a change of sessionId or refreshTrigger that the effects have not seen
\* yet, or a refreshOrder() call made through the ref
OrderEffectsPending ==
  ocSession # sessionId \/ ocTrigger # refreshTrigger \/ ocCalls # refreshOrderCalls

\* the backend holds an order with items for session s: no session call is
\* in flight, a refresh signal was sent (a response reported
\* order_state_changed) and every utterance handled so far was submitted
\* under s while s was the live session
BackendHasItems(s) ==
  /\ s # Null
  /\ ccPending = "none"
  /\ refreshTrigger + refreshOrderCalls > 0
  /\ \A r \in Recs :
       (Submitted(r) /\ recState[r] # "processing")
         => (recSession[r] = s /\ recLive[r] = s)

\* the session effect, the refreshTrigger effect and refreshOrder(), each
\* calling fetchOrderData of the current render up to its await; the backend
\* serves a request as it is sent
OrderReacts ==
  /\ OrderEffectsPending
  /\ LET sessionChanged == ocSession # sessionId
         triggered == ocTrigger # refreshTrigger
         called == ocCalls # refreshOrderCalls
         starts == (IF sessionChanged /\ sessionId # Null THEN 1 ELSE 0)
                   + (IF (sessionChanged \/ triggered) /\ refreshTrigger > 0
                           /\ sessionId # Null THEN 1 ELSE 0)
                   + (IF called /\ sessionId # Null THEN 1 ELSE 0)
         carried == IF BackendHasItems(sessionId) THEN sessionId ELSE Null
     IN /\ orderItems' = IF sessionChanged \/ (called /\ sessionId = Null)
                            THEN Null ELSE orderItems
        /\ orderTotals' = IF sessionChanged THEN Null ELSE orderTotals
        /\ orderFetch' = IF starts = 0 THEN orderFetch
                         ELSE [orderFetch EXCEPT ![carried] =
                                 IF @ + starts > MaxFetch THEN MaxFetch ELSE @ + starts]
  /\ ocSession' = sessionId
  /\ ocTrigger' = refreshTrigger
  /\ ocCalls' = refreshOrderCalls
  /\ UNCHANGED <<refreshTrigger, refreshOrderCalls, dataVars>>
  /\ UNCHANGED <<sessionVars, speakerVars, carVars, greetVars, micKind, micVars,
                 recVars, respVars, sendVars>>

\* what getCurrentOrder can come to: a body with an order, a body without
\* one (or success false), a rejected request
OrderOutcomes == {"order", "none", "error"}

\* fetchOrderData after `await getCurrentOrder`, for a request whose response
\* carries the items of session s (Null: an order without items)
OrderFetchSettled(s, outcome) ==
  /\ ~OrderEffectsPending
  /\ orderFetch[s] > 0
  /\ orderFetch' = [orderFetch EXCEPT ![s] = @ - 1]
  /\ CASE outcome = "order" -> orderItems' = s /\ orderTotals' = s
       [] outcome = "none" -> orderItems' = Null /\ orderTotals' = Null
       [] OTHER -> UNCHANGED <<orderItems, orderTotals>>
  /\ UNCHANGED <<ocSession, ocTrigger, ocCalls, refreshTrigger, refreshOrderCalls,
                 dataVars>>
  /\ UNCHANGED <<sessionVars, speakerVars, carVars, greetVars, micKind, micVars,
                 recVars, respVars, sendVars>>

\* the station with the order display, for sessions without a greeting
\* (createNewSession returns no greeting_audio_url): a handler runs only after
\* the OrderComponent effects of the previous commit
OrderNext ==
  \/ ~OrderEffectsPending /\ HandleNewCar
  \/ ~OrderEffectsPending
       /\ \E ok \in BOOLEAN, car \in 1..MaxCar : CreateSessionSettled(ok, Null, car)
  \/ ~OrderEffectsPending /\ HandleCarArrived
  \/ ~OrderEffectsPending /\ \E ok \in BOOLEAN : ClearSessionSettled(ok)
  \/ ~OrderEffectsPending /\ MicNext
  \/ ~OrderEffectsPending /\ FloatingNext
  \/ ~OrderEffectsPending /\ IconNext
  \/ OrderReacts
  \/ \E s \in {Null} \cup SessionIds, outcome \in OrderOutcomes :
       OrderFetchSettled(s, outcome)

SpecOrder == Init /\ [][OrderNext]_vars

\* ------------------------------------------------- DataProvider
\* everything outside DataContext
stationVars == <<sessionVars, speakerVars, refreshTrigger, refreshOrderCalls,
                 orderItems, orderTotals, orderFetch, ocSession, ocTrigger, ocCalls,
                 carVars, greetVars, micKind, micVars, recVars, respVars, sendVars>>

DataIds == 1..MaxData

\* CacheValid with the comparison turned round
CacheValidInverted ==
  restaurantCache # Null /\ now - cacheTimestamp > CACHE_DURATION

\* `restaurantCache && (now - cacheTimestamp) < CACHE_DURATION`
CacheValid == restaurantCache # Null /\ now - cacheTimestamp < CACHE_DURATION

\* DataProvider mounts: the useState initialisers, then the mount effect,
\* which either takes the cache or calls fetchRestaurantData up to its await
DataProvider ==
  /\ ~mounted
  /\ mounted' = TRUE
  /\ restaurant' = restaurantCache
  /\ menu' = menuCache
  /\ error' = FALSE
  /\ IF CacheValid
       THEN isLoading' = FALSE /\ fetching' = 0
       ELSE /\ fetching + orphaned < MaxMenuFetch
            /\ isLoading' = TRUE
            /\ fetching' = 1
  /\ UNCHANGED <<restaurantCache, menuCache, cacheTimestamp, now, orphaned>>
  /\ UNCHANGED stationVars

\* DataProvider unmounts: its state is gone, its requests stay in flight
DataProviderUnmount ==
  /\ mounted
  /\ mounted' = FALSE
  /\ restaurant' = Null /\ menu' = Null /\ isLoading' = FALSE /\ error' = FALSE
  /\ orphaned' = orphaned + fetching
  /\ fetching' = 0
  /\ UNCHANGED <<restaurantCache, menuCache, cacheTimestamp, now>>
  /\ UNCHANGED stationVars

\* refetch() up to the await inside fetchRestaurantData
refetch ==
  /\ mounted
  /\ fetching + orphaned < MaxMenuFetch
  /\ restaurantCache' = Null
  /\ menuCache' = Null
  /\ cacheTimestamp' = 0
  /\ isLoading' = TRUE
  /\ error' = FALSE
  /\ fetching' = fetching + 1
  /\ UNCHANGED <<now, mounted, restaurant, menu, orphaned>>
  /\ UNCHANGED stationVars

\* fetchRestaurantData after `await getRestaurantMenu`: try / catch / finally.
\* live: the request is one of the mounted instance; the state setters of an
\* unmounted instance do nothing
fetchRestaurantData(live, ok, data) ==
  /\ IF live
       THEN /\ mounted /\ fetching > 0
            /\ fetching' = fetching - 1
            /\ isLoading' = FALSE
            /\ IF ok THEN restaurant' = data /\ menu' = data /\ UNCHANGED error
                     ELSE error' = TRUE /\ UNCHANGED <<restaurant, menu>>
            /\ UNCHANGED orphaned
       ELSE /\ orphaned > 0
            /\ orphaned' = orphaned - 1
            /\ UNCHANGED <<fetching, isLoading, restaurant, menu, error>>
  /\ IF ok
       THEN /\ restaurantCache' = data
            /\ menuCache' = data
            /\ cacheTimestamp' = now
       ELSE UNCHANGED <<restaurantCache, menuCache, cacheTimestamp>>
  /\ UNCHANGED <<now, mounted>>
  /\ UNCHANGED stationVars

\* a minute passes
Tick ==
  /\ now < MaxNow
  /\ now' = now + 1
  /\ UNCHANGED <<restaurantCache, menuCache, cacheTimestamp, mounted, restaurant,
                 menu, isLoading, error, fetching, orphaned>>
  /\ UNCHANGED stationVars

DataNext ==
  \/ DataProvider
  \/ DataProviderUnmount
  \/ refetch
  \/ \E live \in BOOLEAN, ok \in BOOLEAN, data \in DataIds :
       fetchRestaurantData(live, ok, data)
  \/ Tick

SpecData == Init /\ [][DataNext]_vars

\* ------------------------------------------------- fairness
\* a processAudio call settles (a response, a rejection, or the 20 s axios
\* timeout) and its continuation runs; the fallback phrase ends or fails and
\* the continuation of `await playCannedPhrase` runs
Settles ==
  \/ \E r \in Recs, outcome \in Outcomes, url \in {Null} \cup Urls,
        changed \in BOOLEAN :
          FMResponse(r, outcome, url, changed) \/ SIResponse(r, outcome, url, changed)
  \/ \E r \in Recs : SICannedEnded(r) \/ SICannedFailed(r)

\* the station for sessions without a greeting (createNewSession returns no
\* greeting_audio_url)
FairNext ==
  \/ HandleNewCar
  \/ \E ok \in BOOLEAN, car \in 1..MaxCar : CreateSessionSettled(ok, Null, car)
  \/ HandleCarArrived
  \/ \E ok \in BOOLEAN : ClearSessionSettled(ok)
  \/ MicNext
  \/ FloatingNext
  \/ IconNext

SpecFair == Init /\ [][FairNext]_vars /\ WF_vars(Settles)

\* ---------------------------------------------------------------- views
\* the processing flag of the mounted microphone component
Processing == isAPIProcessing \/ siIsProcessing

\* order-refresh signals sent so far (triggerOrderRefresh or refreshOrder())
RefreshSignals == refreshTrigger + refreshOrderCalls

\* the speaker state the three flags stand for
SpeakerState ==
  CASE ~isUserSpeaking /\ ~Processing /\ ~isAISpeaking -> "Idle"
    [] isUserSpeaking /\ ~Processing /\ ~isAISpeaking -> "CustomerSpeaking"
    [] ~isUserSpeaking /\ Processing /\ ~isAISpeaking -> "Processing"
    [] ~isUserSpeaking /\ ~Processing /\ isAISpeaking -> "AISpeaking"
    [] OTHER -> "Mixed"

\* a recorder that holds an open microphone stream
StreamOpen(r) == recState[r] \in {"recording", "stopping"}

\* a capture is being opened or is in progress
Capturing(r) == recState[r] \in {"opening", "recording", "stopping"}

\* the audio of a response is being played
ResponsePlaying ==
  \/ responseAudio \in {"starting", "playing"}
  \/ \E r \in Recs : recState[r] = "respAudio"

\* nothing is pending: no request in flight, no capture, no playback, no timer
Quiescent ==
  /\ ccPending = "none"
  /\ ~GreetingLive
  /\ responseAudio \notin {"starting", "playing"}
  /\ \A r \in Recs : recState[r] \in {"unused", "denied", "done", "respFailed"}

\* ---------------------------------------------------------------- claims

\* C1: isUserSpeaking and isAISpeaking are never true at the same time.
C1_MutualExclusion == ~(isUserSpeaking /\ isAISpeaking)

\* C2: when an utterance was submitted under the live session and that
\* session is no longer the live one when the call settles, the step that
\* handles the response sends no order-refresh signal and sets no speaker
\* flag to true.
C2_StaleSuppression ==
  [][\A r \in Recs :
       (recState[r] = "processing" /\ recState'[r] # "processing"
          /\ recLive[r] = recSession[r] /\ sessionId # recSession[r])
       => /\ RefreshSignals' = RefreshSignals
          /\ (isAISpeaking' => isAISpeaking)
          /\ (isUserSpeaking' => isUserSpeaking)
          /\ (Processing' => Processing)]_vars

\* C3: every processAudio submission carries the session id that is live in
\* SessionContext at the moment of submission.
C3_SubmitsLiveSession ==
  \A r \in Recs : Submitted(r) => recSession[r] = recLive[r]

\* C4: every open microphone stream can still be stopped: its recorder is the
\* one mediaRecorderRef holds (a stream of any other recorder is never
\* released, stop() can no longer reach it).
C4_NoOrphanedStream ==
  \A r \in Recs : recState[r] = "recording" => mediaRecorderRef = r

\* C5: a start-recording request is accepted only when no capture is being
\* opened or is in progress; a second press opens no second stream.
C5_DoublePressIgnored ==
  [][nextRec' # nextRec => \A r \in Recs : ~Capturing(r)]_vars

\* C6: when the session is ended while the AI is speaking, isAISpeaking is
\* false right after that step.
C6_EndSessionStopsAI ==
  [][(sessionId # Null /\ sessionId' = Null /\ isAISpeaking) => ~isAISpeaking']_vars

\* C7: at the step where sessionId becomes null the speaker state is Idle:
\* no capture in progress, no utterance being processed, AI not speaking.
C7_ClearForcesIdle ==
  [][(sessionId # Null /\ sessionId' = Null)
       => /\ SpeakerState' = "Idle"
          /\ \A r \in Recs : ~Capturing(r)' /\ recState'[r] # "processing"]_vars

\* C8: once a response playback has failed and nothing is pending any more,
\* all three speaker flags are false again.
C8_ErrorEndsIdle ==
  (Quiescent /\ (responseAudio = "failed" \/ \E r \in Recs : recState[r] = "respFailed"))
    => SpeakerState = "Idle"

\* C9: a greeting playback that is over has signalled completion (onPlayEnd
\* or onError) exactly once.
C9_ExactlyOnceCompletion == greetingAudio = "over" => greetingDone = 1

\* C10: the step that handles a successful response with audio_url and
\* order_state_changed takes the speaker state from Processing to AISpeaking
\* and sends exactly one order-refresh signal, and while the response audio
\* is playing AISpeaking is left only for Idle.
C10_ScenarioB ==
  [][/\ \A r \in Recs, url \in Urls :
          (FMResponse(r, "ok", url, TRUE) \/ SIResponse(r, "ok", url, TRUE))
          => /\ SpeakerState = "Processing"
             /\ SpeakerState' = "AISpeaking"
             /\ RefreshSignals' = RefreshSignals + 1
     /\ (ResponsePlaying /\ SpeakerState = "AISpeaking"
           /\ SpeakerState' # "AISpeaking")
          => SpeakerState' = "Idle"]_vars

\* C11: the step that handles the response of an utterance sends exactly one
\* order-refresh signal when the response is successful and reports
\* order_state_changed, and none otherwise (a step that changes the signal
\* count by another amount is no response step for that outcome); no other
\* step sends one, and an utterance's response is handled at most once.
C11_RefreshIffChanged ==
  [][/\ \A r \in Recs :
          (recState[r] = "processing" /\ recState'[r] # "processing")
          => \A outcome \in Outcomes, changed \in BOOLEAN :
               \/ RefreshSignals' = RefreshSignals
                                      + (IF outcome = "ok" /\ changed THEN 1 ELSE 0)
               \/ \A url \in {Null} \cup Urls :
                    /\ ~FMResponse(r, outcome, url, changed)
                    /\ ~SIResponse(r, outcome, url, changed)
     /\ RefreshSignals' # RefreshSignals
          => \E r \in Recs : recState[r] = "processing" /\ recState'[r] # "processing"
     /\ \A r \in Recs :
          recState'[r] = "processing" => recState[r] \in {"stopping", "processing"}]_vars

\* two utterances have been handled and exactly one of them sent a refresh
C11_Witness ==
  /\ RefreshSignals = 1
  /\ \A r \in Recs : Submitted(r) /\ recState[r] # "processing"

\* C12: the step that handles a processAudio call that failed or timed out
\* takes the speaker state from Processing to AISpeaking with the canned
\* fallback phrase playing and leaves the order-refresh signals as they are,
\* and the step at which the phrase stops playing takes it to Idle.
C12_ScenarioC ==
  [][\A r \in Recs :
       /\ (SpeakerState = "Processing" /\ recState[r] = "processing"
             /\ recState'[r] # "processing")
          => \A outcome \in {"error", "timeout"}, url \in {Null} \cup Urls,
                changed \in BOOLEAN :
               (FMResponse(r, outcome, url, changed)
                  \/ SIResponse(r, outcome, url, changed))
               => /\ SpeakerState' = "AISpeaking"
                  /\ recState'[r] = "canned"
                  /\ RefreshSignals' = RefreshSignals
       /\ (recState[r] = "canned" /\ recState'[r] # "canned")
          => SpeakerState' = "Idle"]_vars

\* C13: every change of the speaker state follows a permitted edge, or goes
\* to Idle in the step that clears the session. (The start of the greeting
\* playback, Idle to AISpeaking, is set aside: the edge list does not speak
\* of the greeting.)
C13_PermittedEdgesOnly ==
  [][LET PermittedEdges ==
           { <<"Idle", "CustomerSpeaking">>, <<"CustomerSpeaking", "Processing">>,
             <<"Processing", "AISpeaking">>, <<"Processing", "Idle">>,
             <<"AISpeaking", "Idle">> }
     IN SpeakerState' # SpeakerState
          => \/ <<SpeakerState, SpeakerState'>> \in PermittedEdges
             \/ SpeakerState' = "Idle" /\ sessionId # Null /\ sessionId' = Null
             \/ /\ SpeakerState = "Idle" /\ SpeakerState' = "AISpeaking"
                /\ greetingAudio = "starting" /\ greetingAudio' = "playing"]_vars

\* C14: while an utterance is being processed no capture starts (no press is
\* accepted and no microphone starts recording), and at most one processAudio
\* request is in flight.
C14_OneInFlight ==
  [][/\ (\E r \in Recs : recState[r] = "processing")
          => /\ nextRec' = nextRec
             /\ \A q \in Recs : recState'[q] = "recording" => recState[q] = "recording"
     /\ Cardinality({r \in Recs : recState'[r] = "processing"}) <= 1]_vars

\* C15: a session create or clear call starts (New Car or Next Customer is
\* accepted) only when no utterance is being processed and the AI is not
\* speaking.
C15_CarControlsDisabled ==
  [][(ccPending = "none" /\ ccPending' # "none")
       => ~Processing /\ ~isAISpeaking]_vars

\* C16: once the effects of a commit have run, the order display shows no
\* items or totals of a session other than the live one; in particular it is
\* empty while no session is live.
C16_NoOrderLeak ==
  ~OrderEffectsPending
    => (orderItems # Null => orderItems = sessionId /\ orderTotals = sessionId)

\* C17: createSession starts (New Car is accepted) only when the speaker
\* state is Idle.
C17_CreateOnlyWhenIdle ==
  [][(ccPending = "none" /\ ccPending' = "creating") => SpeakerState = "Idle"]_vars

\* C18: no microphone is recording while no session is live.
C18_NoCaptureWithoutSession ==
  \A r \in Recs : recState[r] = "recording" => sessionId # Null

\* C19: the step in which createSession fails leaves the station without a
\* session: sessionId is null, the car control shows no active car and no
\* greeting is playing.
C19_CreateFailureSessionless ==
  [][(ccPending = "creating" /\ ccPending' = "none" /\ sessionError')
       => /\ sessionId' = Null
          /\ currentCar' = Null
          /\ ~GreetingLive']_vars

\* C20: the step in which clearSession fails, for a live session whose car is
\* shown, leaves the session id and the car shown by the car control as they
\* were, so that a car is shown exactly when a session is live.
C20_ClearFailureKeepsState ==
  [][(ccPending = "clearing" /\ ccPending' = "none" /\ sessionError'
        /\ sessionId # Null /\ currentCar # Null)
       => /\ sessionId' = sessionId
          /\ currentCar' = currentCar
          /\ (currentCar' # Null) <=> (sessionId' # Null)]_vars

\* C21: ending the session when no session is live is a no-op: the step in
\* which clearSession settles with sessionId null leaves sessionId,
\* restaurantId, greetingAudioUrl, the active car and the speaker flags as
\* they were (so ending twice gives the state that ending once gives).
C21_EndIdempotent ==
  [][(ccPending = "clearing" /\ ccPending' = "none" /\ sessionId = Null)
       => UNCHANGED <<sessionId, restaurantId, greetingAudioUrl, currentCar,
                      isAISpeaking, isUserSpeaking, isAPIProcessing>>]_vars

\* C22: the step in which the microphone cannot be opened leaves the three
\* speaker flags as they were and leaves the start of a recording possible:
\* the denial does not put the component in the state (hasPermission false)
\* in which every later press is refused.
C22_DeniedKeepsStateAndRetry ==
  [][\A r \in Recs :
       (recState[r] = "opening" /\ recState'[r] = "denied")
       => /\ UNCHANGED <<isUserSpeaking, isAISpeaking, isAPIProcessing,
                         siIsProcessing>>
          /\ hasPermission' # "false"]_vars

C24_SubmittedOnce ==
  [][\A r \in Recs :
       /\ (recState'[r] = "processing" /\ recState[r] # "processing")
            => recState[r] = "stopping" /\ ~Submitted(r)
       /\ Submitted(r)
            => /\ Submitted(r)'
               /\ recLive'[r] = recLive[r]
               /\ recState[r] # "processing" => recState'[r] # "processing"]_vars

\* a submission has failed and its handling is over: nothing submits it again
C24_Witness ==
  /\ siError
  /\ \E r \in Recs : recState[r] = "done" /\ Submitted(r)

\* C25: the order-refresh token starts at 0; a step leaves it alone or raises
\* it by exactly 1; the step in which SpeakerIcon calls triggerOrderRefresh
\* raises it by 1; a step in which a session is being created or cleared, or
\* in which the session changes, leaves it alone.
C25_TokenMonotone ==
  /\ refreshTrigger = 0
  /\ [][/\ refreshTrigger' \in {refreshTrigger, refreshTrigger + 1}
        /\ (ccPending' # ccPending \/ sessionId' # sessionId)
             => refreshTrigger' = refreshTrigger
        /\ \A r \in Recs :
             (recState[r] = "processing" /\ recState'[r] # "processing")
             => \A url \in {Null} \cup Urls :
                  SIResponse(r, "ok", url, TRUE)
                  => refreshTrigger' = refreshTrigger + 1]_vars

\* the token has been raised and no session is live: it is not back at 0
C25_Witness == refreshTrigger > 0 /\ sessionId = Null /\ ccPending = "none"

\* C26: when the OrderComponent effects see a new value of the order-refresh
\* token, then with a live session a getCurrentOrder request is started, and
\* with no live session no request is started and no order items are shown.
C26_RefetchOnToken ==
  [][(ocTrigger # refreshTrigger /\ ocTrigger' = refreshTrigger)
       => IF sessionId # Null
            THEN \E s \in {Null} \cup SessionIds :
                   orderFetch'[s] > orderFetch[s] \/ orderFetch[s] = MaxFetch
            ELSE orderFetch' = orderFetch /\ orderItems' = Null]_vars

\* C27: a DataProvider mount issues a getRestaurantMenu request only when
\* there is no cached restaurant or the cache is older than CACHE_DURATION;
\* the cache receives a restaurant, and a time stamp other than 0, only in
\* the step in which a request succeeds; refetch() empties the cache and
\* issues a request.
C27_CachedFiveMinutes ==
  [][/\ (~mounted /\ mounted' /\ fetching' > 0)
          => restaurantCache = Null \/ now - cacheTimestamp > CACHE_DURATION
     /\ ((restaurantCache' # restaurantCache /\ restaurantCache' # Null)
            \/ (cacheTimestamp' # cacheTimestamp /\ cacheTimestamp' # 0))
          => \E live \in BOOLEAN, data \in DataIds :
               fetchRestaurantData(live, TRUE, data)
     /\ (mounted /\ mounted' /\ fetching' > fetching)
          => restaurantCache' = Null /\ menuCache' = Null
               /\ cacheTimestamp' = 0]_vars

\* C27, amended: as C27_CachedFiveMinutes, with the mount issuing a request
\* only when there is no cached restaurant or the cache is CACHE_DURATION old
\* or older.
C27_CachedUnderFiveMinutes ==
  [][/\ (~mounted /\ mounted' /\ fetching' > 0)
          => restaurantCache = Null \/ now - cacheTimestamp >= CACHE_DURATION
     /\ ((restaurantCache' # restaurantCache /\ restaurantCache' # Null)
            \/ (cacheTimestamp' # cacheTimestamp /\ cacheTimestamp' # 0))
          => \E live \in BOOLEAN, data \in DataIds :
               fetchRestaurantData(live, TRUE, data)
     /\ (mounted /\ mounted' /\ fetching' > fetching)
          => restaurantCache' = Null /\ menuCache' = Null
               /\ cacheTimestamp' = 0]_vars

\* a DataProvider that mounted on a cache exactly CACHE_DURATION old: it
\* shows the cached restaurant and its request is in flight
C27_Witness ==
  /\ mounted /\ isLoading /\ fetching = 1 /\ orphaned = 0
  /\ restaurant # Null /\ restaurant = restaurantCache
  /\ now - cacheTimestamp = CACHE_DURATION

\* C28: whenever isAISpeaking is true, something is pending that will set it
\* back to false: the greeting is loading or playing, the audio of a response
\* is loading or playing, or the 3 s reset timer is running.
C28_AISpeakingHasPlayback ==
  isAISpeaking
    => \/ GreetingLive
       \/ responseAudio \in {"starting", "playing"}
       \/ \E r \in Recs : recState[r] \in {"respAudio", "aiTimer"}

\* C29: whenever the processing flag of the microphone component is true
\* (isAPIProcessing in FloatingMicrophone, isProcessing in SpeakerIcon), it
\* is false again later.
C29_ProcessingClears ==
  /\ isAPIProcessing ~> ~isAPIProcessing
  /\ siIsProcessing ~> ~siIsProcessing

\* the fallback phrase of a failed submission could not be played and the
\* processing flag is back to false
C29_Witness ==
  /\ siError /\ ~siIsProcessing
  /\ \E r \in Recs : recState[r] = "done" /\ Submitted(r)

\* C30: when a SpeakerIcon recording completes (its onstop runs) while no
\* session or no restaurant id is live, processAudio is not called and the
\* processing flag, the error, isAISpeaking and the order-refresh token stay
\* as they are.
C30_NoSessionDropped ==
  [][\A r \in Recs :
       (/\ micKind = "Icon"
        /\ recState[r] = "stopping" /\ recState'[r] # "stopping"
        /\ (sessionId = Null \/ restaurantId = Null))
       => /\ recState'[r] = "done"
          /\ UNCHANGED <<recLive, siIsProcessing, siError, isAISpeaking,
                         refreshTrigger>>]_vars

====
